---- MODULE Spec2Model ----
(***************************************************************************)
(* Model of the pattern matching and substitution functions of             *)
(* jlib/string.go (jsonata-go): Contains, Split, Match, Replace, the       *)
(* matcher protocol driver extractMatches/callMatchFunc and the token      *)
(* expander expandReplaceString.                                           *)
(*                                                                         *)
(* Strings are sequences of one-character strings (Go strings are sliced   *)
(* by byte offset; every character of the model is one byte wide).         *)
(* A Go slice expression s[i:j] is Sub(s, i, j).  Offsets returned by a    *)
(* matcher are whole numbers, on which the conversion int(float64) is the  *)
(* identity.  Go int is 64 bits wide; the digit runs of the model stay far *)
(* below 19 digits, so runesToNumbers never wraps here.                    *)
(***************************************************************************)
EXTENDS Integers, Sequences, FiniteSets, TLC

VARIABLES
    pc,       \* "idle", "callMatchFunc" (inside the recursion), "done", "panic"
    fn,       \* the exported function (or expandReplaceString) being run
    s,        \* the subject string (s / src parameter)
    pattern,  \* the pattern / separator argument (StringCallable)
    repl,     \* the replacement argument of Replace (StringCallable)
    limit,    \* the limit argument (jtypes.OptionalInt)
    max,      \* the limit parameter handed to extractMatches
    calls,    \* number of capability invocations (fn.Call) made so far
    yielded,  \* number of well-formed matches the capability has returned
    violation,\* the check of callMatchFunc a capability result failed, if any
    matches,  \* callMatchFunc's accumulated matches / its return value
    ret       \* the function's return values [val, err]

vars == <<pc, fn, s, pattern, repl, limit, max, calls, yielded, violation,
          matches, ret>>

----------------------------------------------------------------------------
(* Bounds of the model *)

MaxLen == 2        \* longest subject string
MaxMatches == 2    \* most matches a matcher yields before it must stop
MaxLimit == 1      \* largest limit argument
MaxReplLen == 4    \* longest replacement template given to the expander

----------------------------------------------------------------------------
(* Helpers: Go strings and slices *)

Min(a, b) == IF a < b THEN a ELSE b

Max(a, b) == IF a > b THEN a ELSE b

\* s[i:j] of Go, for 0 <= i <= j <= len(s)
Sub(str, i, j) == SubSeq(str, i + 1, j)

\* s[i:]
From(str, i) == SubSeq(str, i + 1, Len(str))

Letters == <<"a", "b", "c", "d", "e", "f">>

Subjects == { SubSeq(Letters, 1, n) : n \in 0..MaxLen }

Pos == 0..MaxLen

\* strings.Index: offset of the first occurrence of sub in str, or -1
stringsIndex(str, sub) ==
    LET at == { i \in 0..(Len(str) - Len(sub)) : Sub(str, i, i + Len(sub)) = sub }
    IN  IF at = {} THEN -1 ELSE CHOOSE i \in at : \A j \in at : i <= j

stringsContains(str, sub) == stringsIndex(str, sub) >= 0

RECURSIVE genSplit(_, _)
genSplit(str, sep) ==
    LET i == stringsIndex(str, sep)
    IN  IF i = -1 THEN <<str>>
        ELSE <<Sub(str, 0, i)>> \o genSplit(From(str, i + Len(sep)), sep)

\* strings.Split: an empty separator explodes the string into characters
stringsSplit(str, sep) ==
    IF sep = <<>> THEN [i \in 1..Len(str) |-> <<str[i]>>]
    ELSE genSplit(str, sep)

RECURSIVE insertAfterEach(_, _, _)
insertAfterEach(str, new, n) ==
    IF n = 0 \/ str = <<>> THEN str
    ELSE <<Head(str)>> \o new \o insertAfterEach(Tail(str), new, n - 1)

RECURSIVE replaceOccurrences(_, _, _, _)
replaceOccurrences(str, old, new, n) ==
    LET i == stringsIndex(str, old)
    IN  IF n = 0 \/ i = -1 THEN str
        ELSE Sub(str, 0, i) \o new
                \o replaceOccurrences(From(str, i + Len(old)), old, new, n - 1)

\* strings.Replace: the first n occurrences, all of them when n < 0
stringsReplace(str, old, new, n) ==
    IF n = 0 THEN str
    ELSE IF old = <<>> THEN new \o insertAfterEach(str, new, n - 1)
    ELSE replaceOccurrences(str, old, new, n)

----------------------------------------------------------------------------
(* Arguments *)

\* StringCallable.toInterface() yields a string, a jtypes.Callable or
\* a value of another type.
StringArg(str) == [kind |-> "string", str |-> str, f |-> ""]

CallableArg(f) == [kind |-> "callable", str |-> <<>>, f |-> f]

OtherArg == [kind |-> "other", str |-> <<>>, f |-> ""]

NoArg == [kind |-> "none", str |-> <<>>, f |-> ""]

\* Matcher capabilities: "capture" reports the matched text of the span and
\* captures it as its one group; "opaque" reports a text of its own and has
\* no groups.
Matchers == {"capture", "opaque"}

\* Replacement capabilities: "index" returns index times the character r,
\* "nonstring" returns a number.
Replacers == {"index", "nonstring"}

LiteralPatterns == { <<>>, <<"b">> }

LiteralRepls == { <<"r", "r">>, <<"$", "0", "$", "1">> }

PatternArgs ==
    { StringArg(p) : p \in LiteralPatterns }
        \cup { CallableArg(f) : f \in Matchers } \cup {OtherArg}

ReplArgs ==
    { StringArg(r) : r \in LiteralRepls }
        \cup { CallableArg(f) : f \in Replacers } \cup {OtherArg}

\* jtypes.OptionalInt: Int is 0 unless the argument was given
Unset == [set |-> FALSE, int |-> 0]

Limits == {Unset} \cup { [set |-> TRUE, int |-> n] : n \in -1..MaxLimit }

IsSet(l) == l.set

NoRet == [val |-> <<>>, err |-> ""]

Init ==
    /\ pc = "idle"
    /\ fn = "none"
    /\ s = <<>>
    /\ pattern = NoArg
    /\ repl = NoArg
    /\ limit = Unset
    /\ max = -1
    /\ calls = 0
    /\ yielded = 0
    /\ violation = ""
    /\ matches = <<>>
    /\ ret = NoRet

----------------------------------------------------------------------------
(* Token expander: expandReplaceString and runesToNumbers *)

Digits == <<"0", "1", "2", "3", "4", "5", "6", "7", "8", "9">>

IsDigit(r) == \E d \in 1..10 : Digits[d] = r

\* int(r - '0')
DigitValue(r) == (CHOOSE d \in 1..10 : Digits[d] = r) - 1

\* strings.IndexRune(str, r): offset of the first r in str, or -1
stringsIndexRune(str, r) == stringsIndex(str, <<r>>)

\* the loop of lines 658-663: the leading run of digits of str
RECURSIVE digitRun(_)
digitRun(str) ==
    IF str = <<>> \/ ~IsDigit(Head(str)) THEN <<>>
    ELSE <<Head(str)>> \o digitRun(Tail(str))

RECURSIVE prefixNumber(_, _)
prefixNumber(runes, i) ==
    IF i = 0 THEN 0 ELSE prefixNumber(runes, i - 1) * 10 + DigitValue(runes[i])

\* nums[i] is the number written by the first i digits (1-based here)
runesToNumbers(runes) == [i \in 1..Len(runes) |-> prefixNumber(runes, i)]

\* index < len(m.groups), index being indexes[i] - 1
inGroupRange(index, m) == index < Len(m.groups)

RECURSIVE groupSearchFrom(_, _, _)
groupSearchFrom(indexes, m, i) ==
    IF i = 0 THEN 0
    ELSE IF inGroupRange(indexes[i] - 1, m) THEN i
    ELSE groupSearchFrom(indexes, m, i - 1)

\* the counterpart of groupSearch that tries the shortest prefix first
groupSearchShortestFirst(indexes, m) ==
    LET ok == { i \in 1..Len(indexes) : inGroupRange(indexes[i] - 1, m) }
    IN  IF ok = {} THEN 0 ELSE CHOOSE i \in ok : \A j \in ok : i <= j

\* the loop of lines 667-676, from the longest prefix down: the number of
\* digits of the accepted prefix, 0 when no prefix names a group
groupSearch(indexes, m) == groupSearchFrom(indexes, m, Len(indexes))

\* the counterpart of skipUnmatchedReference that drops the whole digit run
skipWholeDigitRun(rest) == From(rest, Len(digitRun(rest)))

\* line 678, reached when no prefix names a group: s = s[1:]
skipUnmatchedReference(rest) == From(rest, 1)

\* the counterpart of afterLiteralDollar that never consumes the second $
afterLiteralDollarKeep(rest, r) == rest

\* lines 643-645: after a literal $, a second $ is consumed
afterLiteralDollar(rest, r) == IF r = "$" THEN From(rest, 1) ELSE rest

\* one iteration of the loop of lines 624-679 per call; str is what is left
\* of the template, result what has been written
RECURSIVE expandLoop(_, _, _)
expandLoop(str, m, result) ==
    LET p == stringsIndexRune(str, "$")
    IN  IF p = -1 THEN result \o str
        ELSE
          LET res1 == result \o Sub(str, 0, p)
              rest == From(str, p + 1)
          IN  IF Len(rest) = 0 THEN res1 \o <<"$">>
              ELSE
                LET r == Head(rest)
                IN  IF r = "$" \/ ~IsDigit(r)
                    THEN expandLoop(afterLiteralDollar(rest, r), m, res1 \o <<"$">>)
                    ELSE IF r = "0"
                    THEN expandLoop(From(rest, 1), m, res1 \o m.value)
                    ELSE
                      LET indexes == runesToNumbers(digitRun(rest))
                          i == groupSearch(indexes, m)
                      IN  IF i > 0
                          THEN expandLoop(From(rest, i), m,
                                          res1 \o m.groups[indexes[i]])
                          ELSE expandLoop(skipUnmatchedReference(rest), m, res1)

expandReplaceString(str, m) == expandLoop(str, m, <<>>)

----------------------------------------------------------------------------
(* Matcher protocol driver: callMatchFunc and extractMatches *)

InRange(subj, st, en) == 0 <= st /\ st <= en /\ en <= Len(subj)

\* the "match" field a capability reports for the span [st, en)
ReportedText(subj, f, st, en) ==
    IF f = "capture"
    THEN IF InRange(subj, st, en) THEN Sub(subj, st, en) ELSE <<>>
    ELSE <<"z">>

\* the match struct built at lines 609-616 from a well-formed result
MatchOf(subj, f, st, en) ==
    [value   |-> ReportedText(subj, f, st, en),
     indexes |-> <<st, en>>,
     groups  |-> IF f = "capture" THEN <<ReportedText(subj, f, st, en)>> ELSE <<>>]

\* the ways a capability call can fail callMatchFunc's checks, in the
\* order of the checks
Violations == {"call", "object", "match", "start", "end", "groups", "next"}

callMatchFuncError(v) ==
    CASE v = "call"   -> "error returned by the match function"
      [] v = "object" -> "match function must return an object"
      [] v = "match"  -> "match function must return an object with a string value named 'match'"
      [] v = "start"  -> "match function must return an object with a number value named 'start'"
      [] v = "end"    -> "match function must return an object with a number value named 'end'"
      [] v = "groups" -> "match function must return an object with a string array value named 'groups'"
      [] v = "next"   -> "match function must return an object with a Callable value named 'next'"

MatcherErrors == { callMatchFuncError(v) : v \in Violations }

\* the counterpart of extractMatches that treats limit 0 as no limit
extractMatchesPositive(all, lim) ==
    IF lim > 0 /\ lim < Len(all) THEN SubSeq(all, 1, lim) ELSE all

\* lines 549-553: what extractMatches returns once callMatchFunc has
\* returned all the matches without error
extractMatches(all, lim) ==
    IF lim >= 0 /\ lim < Len(all) THEN SubSeq(all, 1, lim) ELSE all

\* the counterpart of failedMatches that hands back the matches so far
failedMatchesKept(sofar) == sofar

\* the []match value callMatchFunc returns with an error: nil
failedMatches(sofar) == <<>>

----------------------------------------------------------------------------
(* Match consumers and the replacement engine: the code that follows the  *)
(* call of extractMatches.  Each yields [val, err, panic]; panic is Go's   *)
(* run-time panic on a slice expression whose bounds are out of range.     *)

Returns(val, err) == [val |-> val, err |-> err, panic |-> FALSE]

Panics == [val |-> <<>>, err |-> "", panic |-> TRUE]

\* limit.Int < 0
negativeLimitBelowMinusOne(l) == l.int < -1

negativeLimit(l) == l.int < 0

\* lines 246-249 and 293-296
maxOf(l) == IF IsSet(l) THEN l.int ELSE -1

\* Contains, lines 154-157
containsReturn(ms, err) ==
    IF err # "" THEN Returns(FALSE, err) ELSE Returns(Len(ms) > 0, "")

\* the counterpart of truncateParts that takes limit 0 for no limit
truncatePartsPositive(parts, l) ==
    IF IsSet(l) /\ l.int > 0 /\ l.int < Len(parts) THEN SubSeq(parts, 1, l.int) ELSE parts

\* Split, lines 200-202
truncateParts(parts, l) ==
    IF IsSet(l) /\ l.int < Len(parts) THEN SubSeq(parts, 1, l.int) ELSE parts

\* the counterpart of nextPos that resumes at the start of the match
nextPosAtStart(m) == m.indexes[1]

\* Split, line 193: pos = m.indexes[1] (the end of the match)
nextPos(m) == m.indexes[2]

\* Split, lines 190-195
RECURSIVE splitLoop(_, _, _, _, _)
splitLoop(subj, ms, i, pos, parts) ==
    IF i > Len(ms)
    THEN IF pos > Len(subj) THEN Panics
         ELSE Returns(Append(parts, From(subj, pos)), "")
    ELSE IF ~InRange(subj, pos, ms[i].indexes[1]) THEN Panics
    ELSE splitLoop(subj, ms, i + 1, nextPos(ms[i]),
                   Append(parts, Sub(subj, pos, ms[i].indexes[1])))

\* Split, lines 186-204
splitReturn(subj, ms, err, l) ==
    IF err # "" THEN Returns(<<>>, err)
    ELSE LET r == splitLoop(subj, ms, 1, 0, <<>>)
         IN  IF r.panic THEN Panics ELSE Returns(truncateParts(r.val, l), "")

\* the object given to callers for one match (lines 259-263, 686-690)
MatchRecord(m) == [match |-> m.value, index |-> m.indexes[1], groups |-> m.groups]

\* Match, lines 252-266
matchReturn(ms, err) ==
    IF err # "" THEN Returns(<<>>, err)
    ELSE Returns([i \in 1..Len(ms) |-> MatchRecord(ms[i])], "")

RECURSIVE Repeat(_, _)
Repeat(c, n) == IF n <= 0 THEN <<>> ELSE <<c>> \o Repeat(c, n - 1)

\* callReplaceFunc: the capability is called with the match's object and
\* must return a string
callReplaceFunc(f, m) ==
    LET data == MatchRecord(m)
    IN  IF f = "index" THEN [str |-> Repeat("r", data.index), err |-> ""]
        ELSE [str |-> <<>>,
              err |-> "third argument of function replace must be a function that returns a string"]

\* replaceMatchFunc, lines 328-333 and 345-357: the replacement for match m
replacementFor(r, m) ==
    IF r.kind = "callable" THEN callReplaceFunc(r.f, m)
    ELSE IF \E k \in 1..Len(r.str) : r.str[k] = "$"
         THEN [str |-> expandReplaceString(r.str, m), err |-> ""]
         ELSE [str |-> r.str, err |-> ""]

\* the counterpart of replaceOrder that walks the matches first to last
replaceOrderForward(n, k) == k

\* replaceMatchFunc, line 343: the k-th match handled of n is the
\* (n + 1 - k)-th collected, the last match first
replaceOrder(n, k) == n + 1 - k

\* replaceMatchFunc, lines 343-360; k counts the iterations
RECURSIVE replaceLoop(_, _, _, _)
replaceLoop(src, ms, k, r) ==
    IF k > Len(ms) THEN Returns(src, "")
    ELSE LET m == ms[replaceOrder(Len(ms), k)]
             rp == replacementFor(r, m)
         IN  IF rp.err # "" THEN Returns(<<>>, rp.err)
             ELSE IF m.indexes[1] > Len(src) \/ m.indexes[2] > Len(src)
                     \/ m.indexes[1] < 0 \/ m.indexes[2] < 0
             THEN Panics
             ELSE replaceLoop(Sub(src, 0, m.indexes[1]) \o rp.str \o From(src, m.indexes[2]),
                              ms, k + 1, r)

\* replaceMatchFunc, lines 338-362
replaceReturn(src, ms, err, r) ==
    IF err # "" THEN Returns(<<>>, err) ELSE replaceLoop(src, ms, 1, r)

\* replaceString, lines 308-320
replaceString(src, pat, r, lim) ==
    IF pat = <<>>
    THEN Returns(<<>>, "second argument of function replace can't be an empty string")
    ELSE IF r.kind # "string"
    THEN Returns(<<>>, "third argument of function replace must be a string when pattern is a string")
    ELSE Returns(stringsReplace(src, pat, r.str, lim), "")

\* what the running function does with extractMatches' results
Finish(ms, err) ==
    CASE fn = "Contains" -> containsReturn(ms, err)
      [] fn = "Split"    -> splitReturn(s, ms, err, limit)
      [] fn = "Match"    -> matchReturn(ms, err)
      [] fn = "Replace"  -> replaceReturn(s, ms, err, repl)

Return(r) ==
    /\ ret' = [val |-> r.val, err |-> r.err]
    /\ pc' = IF r.panic THEN "panic" ELSE "done"

\* the function calls extractMatches(fn, s, lim): callMatchFunc starts
\* with no matches
EnterExtractMatches(lim) ==
    /\ pc' = "callMatchFunc"
    /\ max' = lim
    /\ UNCHANGED <<calls, yielded, violation, matches, ret>>

----------------------------------------------------------------------------
(* Actions *)

ContainsCall(subj, pat) ==
    /\ fn' = "Contains" /\ s' = subj /\ pattern' = pat
    /\ UNCHANGED <<repl, limit>>
    /\ IF pat.kind = "string"
       THEN /\ Return(Returns(stringsContains(subj, pat.str), ""))
            /\ UNCHANGED <<max, calls, yielded, violation, matches>>
       ELSE IF pat.kind = "callable"
       THEN EnterExtractMatches(-1)
       ELSE /\ Return(Returns(FALSE, "function contains takes a string or a regex"))
            /\ UNCHANGED <<max, calls, yielded, violation, matches>>

SplitCall(subj, sep, l) ==
    /\ fn' = "Split" /\ s' = subj /\ pattern' = sep /\ limit' = l
    /\ UNCHANGED repl
    /\ IF negativeLimit(l)
       THEN /\ Return(Returns(<<>>, "third argument of the split function must evaluate to a positive number"))
            /\ UNCHANGED <<max, calls, yielded, violation, matches>>
       ELSE IF sep.kind = "string"
       THEN /\ Return(Returns(truncateParts(stringsSplit(subj, sep.str), l), ""))
            /\ UNCHANGED <<max, calls, yielded, violation, matches>>
       ELSE IF sep.kind = "callable"
       THEN EnterExtractMatches(-1)
       ELSE /\ Return(Returns(<<>>, "function split takes a string or a regex"))
            /\ UNCHANGED <<max, calls, yielded, violation, matches>>

MatchCall(subj, pat, l) ==
    /\ fn' = "Match" /\ s' = subj /\ pattern' = pat /\ limit' = l
    /\ UNCHANGED repl
    /\ IF negativeLimit(l)
       THEN /\ Return(Returns(<<>>, "third argument of function match must evaluate to a positive number"))
            /\ UNCHANGED <<max, calls, yielded, violation, matches>>
       ELSE EnterExtractMatches(maxOf(l))

ReplaceCall(src, pat, r, l) ==
    /\ fn' = "Replace" /\ s' = src /\ pattern' = pat /\ repl' = r /\ limit' = l
    /\ IF negativeLimit(l)
       THEN /\ Return(Returns(<<>>, "fourth argument of function replace must evaluate to a positive number"))
            /\ UNCHANGED <<max, calls, yielded, violation, matches>>
       ELSE IF pat.kind = "string"
       THEN /\ Return(replaceString(src, pat.str, r, maxOf(l)))
            /\ UNCHANGED <<max, calls, yielded, violation, matches>>
       ELSE IF pat.kind = "callable"
       THEN IF r.kind \in {"string", "callable"}
            THEN EnterExtractMatches(maxOf(l))
            ELSE /\ Return(Returns(<<>>, "third argument of function replace must be a string or a function"))
                 /\ UNCHANGED <<max, calls, yielded, violation, matches>>
       ELSE /\ Return(Returns(<<>>, "second argument of function replace must be a string or a regex"))
            /\ UNCHANGED <<max, calls, yielded, violation, matches>>

\* callMatchFunc, lines 558-616: the capability returns a well-formed
\* result for the span [st, en); the match is appended and callMatchFunc
\* calls itself with the continuation
CallMatchFuncMatch ==
    /\ pc = "callMatchFunc"
    /\ Len(matches) < MaxMatches
    /\ \E st \in Pos, en \in Pos :
          matches' = Append(matches, MatchOf(s, pattern.f, st, en))
    /\ calls' = calls + 1
    /\ yielded' = yielded + 1
    /\ UNCHANGED <<pc, fn, s, pattern, repl, limit, max, violation, ret>>

\* callMatchFunc, lines 558-565: the capability returns no value; the
\* matches are returned through extractMatches to the running function
CallMatchFuncEnd ==
    /\ pc = "callMatchFunc"
    /\ calls' = calls + 1
    /\ Return(Finish(extractMatches(matches, max), ""))
    /\ UNCHANGED <<fn, s, pattern, repl, limit, max, yielded, violation, matches>>

\* callMatchFunc, lines 558-607: the call fails or its result fails one of
\* the checks; nil and the error are returned through extractMatches
\* (lines 545-547) to the running function
CallMatchFuncFail ==
    /\ pc = "callMatchFunc"
    /\ calls' = calls + 1
    /\ matches' = failedMatches(matches)
    /\ \E v \in Violations :
          /\ violation' = v
          /\ Return(Finish(matches', callMatchFuncError(v)))
    /\ UNCHANGED <<fn, s, pattern, repl, limit, max, yielded>>

\* the exported functions, called with arguments of every shape
Contains ==
    /\ pc = "idle"
    /\ \E subj \in Subjects, pat \in PatternArgs : ContainsCall(subj, pat)

Split ==
    /\ pc = "idle"
    /\ \E subj \in Subjects, sep \in PatternArgs, l \in Limits : SplitCall(subj, sep, l)

Match ==
    /\ pc = "idle"
    /\ \E subj \in Subjects, f \in Matchers, l \in Limits :
          MatchCall(subj, CallableArg(f), l)

Replace ==
    /\ pc = "idle"
    /\ \E src \in Subjects, pat \in PatternArgs, r \in ReplArgs, l \in Limits :
          ReplaceCall(src, pat, r, l)

Next ==
    \/ Contains
    \/ Split
    \/ Match
    \/ Replace
    \/ CallMatchFuncMatch
    \/ CallMatchFuncEnd
    \/ CallMatchFuncFail

Spec == Init /\ [][Next]_vars

----------------------------------------------------------------------------
(* The token expander on its own *)

TemplateChars == {"$", "0", "1", "2", "5", "x"}

Templates == UNION { [1..n -> TemplateChars] : n \in 0..MaxReplLen }

GroupNames == <<"g1", "g2", "g3", "g4", "g5", "g6", "g7", "g8", "g9", "g10", "g11", "g12">>

GroupCounts == {0, 1, 3, 12}

\* matches whose groups are told apart by their text
ExpandMatches ==
    { [value |-> <<"v">>, indexes |-> <<0, 1>>,
       groups |-> [i \in 1..n |-> <<GroupNames[i]>>]] : n \in GroupCounts }

\* expandReplaceString called with a template and a match
ExpandReplaceString ==
    /\ pc = "idle"
    /\ \E tmpl \in Templates, m \in ExpandMatches :
          /\ repl' = StringArg(tmpl)
          /\ matches' = <<m>>
          /\ Return(Returns(expandReplaceString(tmpl, m), ""))
    /\ fn' = "expandReplaceString"
    /\ UNCHANGED <<s, pattern, limit, max, calls, yielded, violation>>

NextExpand == ExpandReplaceString

SpecExpand == Init /\ [][NextExpand]_vars

----------------------------------------------------------------------------
(* Properties of the matcher protocol driver and its consumers (Spec) *)

Finished == pc \in {"done", "panic"}

UsesMatcher == pattern.kind = "callable"

\* the zero value each function returns beside an error
EmptyResult == IF fn = "Contains" THEN FALSE ELSE <<>>

\* the matches extractMatches hands to a function whose limit is l
Collected(l) ==
    IF IsSet(l) THEN SubSeq(matches, 1, Min(l.int, Len(matches))) ELSE matches

\* C1: for a limit N >= 0 handed to extractMatches, the capability is
\* invoked at most max(1, N) times in all: once for N = 0, and never again
\* after the call that produced the N-th match.
C1_AtMostLimitInvocations ==
    (fn \in {"Match", "Replace"} /\ max >= 0) => calls <= Max(1, max)

\* C2: Contains with a matcher makes exactly one capability call and
\* returns true iff that first call yielded a match; the continuation
\* paired with the first match is never invoked.
C2_ContainsSingleCall ==
    (fn = "Contains" /\ UsesMatcher) =>
        /\ calls <= 1
        /\ (pc = "done" /\ violation = "") => (calls = 1 /\ ret.val = (yielded >= 1))

\* C3: for a matcher that yields T matches and then its terminal result,
\* Match with limit N >= 0 returns min(N, T) records and with no limit all
\* T; the records are the first matches in the matcher's order, each as
\* {match, index = start, groups}.
C3_MatchReturnsFirstMatches ==
    (fn = "Match" /\ Finished /\ violation = "" /\ limit.int >= 0) =>
        /\ pc = "done" /\ ret.err = ""
        /\ Len(matches) = yielded
        /\ Len(ret.val) = IF IsSet(limit) THEN Min(limit.int, yielded) ELSE yielded
        /\ \A i \in 1..Len(ret.val) :
              ret.val[i] = [match  |-> matches[i].value,
                            index  |-> matches[i].indexes[1],
                            groups |-> matches[i].groups]

C3_Witness ==
    /\ fn = "Match" /\ pc = "done" /\ violation = ""
    /\ IsSet(limit) /\ limit.int = 1 /\ yielded = 2
    /\ Len(ret.val) = 1
    /\ ret.val[1].index = matches[1].indexes[1]
    /\ matches[2].indexes[1] # matches[1].indexes[1]

\* C4: when a capability call (the first or a continuation, after any
\* number of valid matches) fails callMatchFunc's checks, no match is
\* returned by extractMatches, the running function returns that error
\* with its empty result (nil, "", nil, false), and no call follows the
\* failed one.
C4_ViolationDiscardsEverything ==
    violation # "" =>
        /\ pc = "done"
        /\ calls = yielded + 1
        /\ matches = <<>>
        /\ ret.err = callMatchFuncError(violation)
        /\ ret.val = EmptyResult

C4_Witness ==
    /\ violation = "groups" /\ yielded = 2 /\ fn = "Replace"
    /\ ret.err \in MatcherErrors /\ ret.val = <<>>

\* matches whose spans lie in the subject, in forward order, not overlapping
SpansInOrder(subj, ms) ==
    \A i \in 1..Len(ms) :
        /\ InRange(subj, ms[i].indexes[1], ms[i].indexes[2])
        /\ i > 1 => ms[i].indexes[1] >= ms[i - 1].indexes[2]

\* ... and whose text is the text of their span
WellFormed(subj, ms) ==
    /\ SpansInOrder(subj, ms)
    /\ \A i \in 1..Len(ms) : ms[i].value = Sub(subj, ms[i].indexes[1], ms[i].indexes[2])

\* segment[1] match[1] segment[2] ... match[k] segment[k+1]
RECURSIVE Rejoin(_, _, _)
Rejoin(parts, ms, i) ==
    IF i > Len(ms) THEN parts[i]
    ELSE parts[i] \o ms[i].value \o Rejoin(parts, ms, i + 1)

\* C5: Split with no limit on a matcher whose k matches are well-formed,
\* in range and in forward order without overlap returns k + 1 segments,
\* and the segments rejoined with the matches' texts are the subject.
C5_SplitRoundTrip ==
    (fn = "Split" /\ Finished /\ UsesMatcher /\ ~IsSet(limit) /\ violation = ""
        /\ WellFormed(s, matches)) =>
        /\ pc = "done" /\ ret.err = ""
        /\ Len(ret.val) = Len(matches) + 1
        /\ Rejoin(ret.val, matches, 1) = s

C5_Witness ==
    /\ fn = "Split" /\ pc = "done" /\ ~IsSet(limit) /\ violation = ""
    /\ Len(s) = 2 /\ Len(matches) = 2 /\ WellFormed(s, matches)
    /\ matches[1].indexes = <<0, 1>> /\ matches[2].indexes = <<2, 2>>
    /\ ret.val = << <<>>, <<"b">>, <<>> >>

\* subject[0:start_1] repl_1 subject[end_1:start_2] repl_2 ... subject[end_k:]
RECURSIVE Stitch(_, _, _, _, _)
Stitch(subj, ms, r, i, pos) ==
    IF i > Len(ms) THEN From(subj, pos)
    ELSE Sub(subj, pos, ms[i].indexes[1]) \o replacementFor(r, ms[i]).str
            \o Stitch(subj, ms, r, i + 1, ms[i].indexes[2])

\* C6: Replace with a matcher substitutes on the original subject's
\* offsets: for collected matches in range and in forward order without
\* overlap the output is subject[0:start_1] repl_1 subject[end_1:start_2]
\* ... subject[end_k:] whatever the lengths of the replacements, and the
\* first replacement starts at offset start_1 of the output.
C6_ReplaceOnOriginalOffsets ==
    (fn = "Replace" /\ Finished /\ UsesMatcher /\ violation = ""
        /\ limit.int >= 0 /\ repl.kind \in {"string", "callable"}
        /\ SpansInOrder(s, Collected(limit))
        /\ \A i \in 1..Len(Collected(limit)) :
              replacementFor(repl, Collected(limit)[i]).err = "") =>
        /\ pc = "done" /\ ret.err = ""
        /\ ret.val = Stitch(s, Collected(limit), repl, 1, 0)
        /\ Collected(limit) # <<>> =>
              LET m1 == Collected(limit)[1]
                  r1 == replacementFor(repl, m1).str
              IN  Sub(ret.val, m1.indexes[1], m1.indexes[1] + Len(r1)) = r1

C6_Witness ==
    /\ fn = "Replace" /\ pc = "done" /\ violation = "" /\ repl = CallableArg("index")
    /\ Len(s) = 2 /\ Len(Collected(limit)) = 2
    /\ matches[1].indexes = <<0, 1>> /\ matches[2].indexes = <<1, 2>>
    /\ ret.val = <<"r">>

\* segment i of k + 1 runs from the end of match i - 1 (0 for the first) to
\* the start of match i (the end of the subject for the last)
SegmentLow(ms, i) == IF i = 1 THEN 0 ELSE ms[i - 1].indexes[2]

SegmentHigh(subj, ms, i) == IF i <= Len(ms) THEN ms[i].indexes[1] ELSE Len(subj)

\* every one of these slices exists: Go requires 0 <= low <= high <= len
Sliceable(subj, ms) ==
    \A i \in 1..(Len(ms) + 1) :
        InRange(subj, SegmentLow(ms, i), SegmentHigh(subj, ms, i))

Segments(subj, ms) ==
    [i \in 1..(Len(ms) + 1) |->
        Sub(subj, SegmentLow(ms, i), SegmentHigh(subj, ms, i))]

\* C11: Split with a matcher separator drives the matcher without bound to
\* its terminal result whatever the limit, builds the segments
\* subject[prevEnd:match[i].start] of all the matches and the trailing
\* subject[prevEnd:], and only then, when the limit is set, keeps the
\* first limit segments: the whole list if it has no more than limit
\* elements, the empty list for limit 0.
C11_SplitDrainsThenTruncates ==
    (fn = "Split" /\ UsesMatcher /\ Finished /\ violation = ""
        /\ limit.int >= 0 /\ Sliceable(s, matches)) =>
        /\ pc = "done" /\ ret.err = ""
        /\ max = -1
        /\ calls = yielded + 1 /\ Len(matches) = yielded
        /\ ret.val = IF IsSet(limit)
                     THEN SubSeq(Segments(s, matches), 1, Min(limit.int, yielded + 1))
                     ELSE Segments(s, matches)

C11_Witness ==
    /\ fn = "Split" /\ pc = "done" /\ violation = "" /\ UsesMatcher
    /\ IsSet(limit) /\ limit.int = 1
    /\ s = <<"a", "b">> /\ yielded = 2 /\ calls = 3
    /\ matches[1].indexes = <<1, 1>> /\ matches[2].indexes = <<2, 2>>
    /\ Len(Segments(s, matches)) = 3
    /\ ret.val = << <<"a">> >>

\* C12: whenever the capability's results pass callMatchFunc's checks,
\* every match extractMatches returns has 0 <= start <= end <=
\* len(subject), and starts no earlier than the match before it ends.
C12_ReturnedSpansValid ==
    (UsesMatcher /\ Finished /\ violation = "") =>
        SpansInOrder(s, extractMatches(matches, max))

\* the call shapes the functions reject
MalformedCall ==
    \/ fn \in {"Replace", "Split", "Match"} /\ IsSet(limit) /\ limit.int < 0
    \/ fn = "Replace" /\ pattern.kind = "string" /\ pattern.str = <<>>
    \/ fn = "Replace" /\ pattern.kind = "string" /\ repl.kind = "callable"
    \/ fn \in {"Replace", "Split", "Contains"} /\ pattern.kind = "other"
    \/ fn = "Replace" /\ repl.kind = "other"

\* C10: a negative limit (Replace, Split, Match), an empty literal pattern
\* (Replace), a literal pattern with a capability replacement (Replace)
\* and a pattern or replacement that is neither string nor capability
\* (Replace, Split, Contains) are each answered by an error and the empty
\* result, never by a result computed from defaulted arguments.
C10_MalformedCallsFail ==
    MalformedCall =>
        /\ pc = "done"
        /\ ret.err # "" /\ ret.err \notin MatcherErrors
        /\ ret.val = EmptyResult
        /\ calls = 0

C10_Witness ==
    /\ fn = "Replace" /\ pc = "done"
    /\ pattern = StringArg(<<"b">>) /\ repl.kind = "callable"
    /\ ret.err = "third argument of function replace must be a string when pattern is a string"
    /\ ret.val = <<>>

----------------------------------------------------------------------------
(* Properties of the token expander (SpecExpand) *)

Expanded == fn = "expandReplaceString" /\ pc = "done"

Template == repl.str

\* the text before the first $ of the template, and the text after it
HasDollar == \E k \in 1..Len(Template) : Template[k] = "$"

FirstDollar == CHOOSE k \in 1..Len(Template) :
                  Template[k] = "$" /\ \A j \in 1..(k - 1) : Template[j] # "$"

BeforeDollar == SubSeq(Template, 1, FirstDollar - 1)

AfterDollar == SubSeq(Template, FirstDollar + 1, Len(Template))

\* the number a run of decimal digits writes
RECURSIVE Decimal(_)
Decimal(run) ==
    IF run = <<>> THEN 0
    ELSE 10 * Decimal(SubSeq(run, 1, Len(run) - 1)) + DigitValue(run[Len(run)])

\* the first $ is followed by a run of digits that starts with 1..9
GroupReference ==
    /\ Expanded /\ HasDollar
    /\ AfterDollar # <<>>
    /\ IsDigit(Head(AfterDollar)) /\ Head(AfterDollar) # "0"

\* lengths of the prefixes of that run which are 1-based group indexes
ValidPrefixes ==
    { k \in 1..Len(digitRun(AfterDollar)) :
        LET n == Decimal(SubSeq(AfterDollar, 1, k))
        IN  1 <= n /\ n <= Len(matches[1].groups) }

\* C7 as stated: when no prefix of the digit run is a group index, a
\* literal $ is emitted and no digit is consumed, the run being scanned
\* again as ordinary text.
C7_UnmatchedReferenceKeepsDollarAndDigits ==
    (GroupReference /\ ValidPrefixes = {}) =>
        ret.val = BeforeDollar \o <<"$">> \o expandReplaceString(AfterDollar, matches[1])

\* C7 amended: when no prefix of the digit run is a group index, the $ and
\* the first digit of the run are dropped: nothing is emitted for them and
\* the scan resumes after that one digit, the rest of the run being
\* ordinary text ("$5x" against one group gives "x").
C7_UnmatchedReferenceDropsDollarAndDigit ==
    (GroupReference /\ ValidPrefixes = {}) =>
        ret.val = BeforeDollar \o expandReplaceString(Tail(AfterDollar), matches[1])

C7_Witness ==
    /\ Expanded /\ Template = <<"$", "5", "5", "x">> /\ Len(matches[1].groups) = 1
    /\ GroupReference /\ ValidPrefixes = {}
    /\ ret.val = <<"5", "x">>

\* C8: when some prefix of the digit run is a group index, the longest
\* such prefix is taken: its digits are consumed, that group is emitted
\* and the digits left over are ordinary text.
C8_LongestGroupPrefix ==
    (GroupReference /\ ValidPrefixes # {}) =>
        LET k == CHOOSE k \in ValidPrefixes : \A j \in ValidPrefixes : j <= k
            n == Decimal(SubSeq(AfterDollar, 1, k))
        IN  ret.val = BeforeDollar \o matches[1].groups[n]
                        \o expandReplaceString(SubSeq(AfterDollar, k + 1, Len(AfterDollar)),
                                               matches[1])

C8_Witness ==
    /\ Expanded /\ Template = <<"$", "1", "2">> /\ Len(matches[1].groups) = 12
    /\ ValidPrefixes = {1, 2}
    /\ ret.val = <<"g12">>

\* C9: $$ gives one literal $, $0 the matched text, a $ at the end or
\* before a character that is neither digit nor $ a literal $ with that
\* character left to be scanned, and every other character is copied in
\* order ("$$1" gives "$1", "x$" gives "x$").
C9_DollarTokens ==
    Expanded =>
        IF ~HasDollar THEN ret.val = Template
        ELSE IF AfterDollar = <<>> THEN ret.val = BeforeDollar \o <<"$">>
        ELSE IF Head(AfterDollar) = "$"
        THEN ret.val = BeforeDollar \o <<"$">>
                         \o expandReplaceString(Tail(AfterDollar), matches[1])
        ELSE IF Head(AfterDollar) = "0"
        THEN ret.val = BeforeDollar \o matches[1].value
                         \o expandReplaceString(Tail(AfterDollar), matches[1])
        ELSE IF ~IsDigit(Head(AfterDollar))
        THEN ret.val = BeforeDollar \o <<"$">>
                         \o expandReplaceString(AfterDollar, matches[1])
        ELSE TRUE

C9_Witness ==
    /\ Expanded /\ Template = <<"$", "$", "1">> /\ Len(matches[1].groups) = 1
    /\ ret.val = <<"$", "1">>

====
